---- MODULE Spec2Model ----
(***************************************************************************)
(* A model of the mvn_version crate: the tokenizer and ordering of         *)
(* ComparableVersion (src/comparable_version/mod.rs, item.rs) and the      *)
(* field decomposition of ArtifactVersion (src/artifact_version.rs).       *)
(*                                                                         *)
(* Text is modelled as the code sees it: a sequence of UTF-8 bytes.        *)
(* Indices (start_index, i) are the 0-based byte offsets of the source;    *)
(* byte k of a string s is s[k+1].                                         *)
(***************************************************************************)
EXTENDS Integers, Sequences, FiniteSets, TLC

\* ------------------------------------------------------------------------
\* Bytes and strings
\* ------------------------------------------------------------------------

\* b'.'
DOT == 46

\* b'-'
DASH == 45

\* b'0'
ZERO == 48

\* b'9'
NINE == 57

\* b'+', the sign from_str of the integer types accepts
PLUS == 43

\* b'_', the default of unwrap_or in the leading-zero tests
UNDERSCORE == 95

\* c >= b'0' && c <= b'9'
IsAsciiDigit(c) == c >= ZERO /\ c <= NINE

\* a UTF-8 continuation byte 10xxxxxx: never a char boundary
IsContinuation(c) == c >= 128 /\ c <= 191

\* the lead byte of a two-byte UTF-8 sequence
IsLead2(c) == c >= 194 /\ c <= 223

\* str::is_char_boundary, offset k (0-based)
IsCharBoundary(s, k) ==
    \/ k = 0
    \/ k = Len(s)
    \/ (k > 0 /\ k < Len(s) /\ ~IsContinuation(s[k + 1]))

\* &s[from..to] panics unless from <= to <= len and both are char boundaries
SliceOk(s, from, to) ==
    /\ from <= to
    /\ to <= Len(s)
    /\ IsCharBoundary(s, from)
    /\ IsCharBoundary(s, to)

\* the bytes of &s[from..to] (only used when SliceOk)
Slice(s, from, to) == SubSeq(s, from + 1, to)

\* well-formed UTF-8 over the one- and two-byte sequences of the alphabet
RECURSIVE IsValidUtf8(_)
IsValidUtf8(s) ==
    IF s = <<>> THEN TRUE
    ELSE IF s[1] < 128 THEN IsValidUtf8(Tail(s))
    ELSE IF IsLead2(s[1]) /\ Len(s) >= 2 /\ IsContinuation(s[2])
         THEN IsValidUtf8(SubSeq(s, 3, Len(s)))
    ELSE FALSE

\* str::to_lowercase: ASCII A-Z and the Latin-1 capitals U+00C0..U+00DE
\* (C3 80 .. C3 9E, except the multiplication sign C3 97) map to their
\* lower-case letter; every other byte is copied.
ToLowercase(s) ==
    [k \in 1..Len(s) |->
        IF s[k] >= 65 /\ s[k] <= 90 THEN s[k] + 32
        ELSE IF k > 1 /\ s[k - 1] = 195 /\ s[k] >= 128 /\ s[k] <= 158 /\ s[k] # 151
             THEN s[k] + 32
        ELSE s[k]]

\* bytes().skip_while(|b| b == b'0') / take_while(..).count()
RECURSIVE SkipLeadingZeros(_)
SkipLeadingZeros(s) ==
    IF s # <<>> /\ s[1] = ZERO THEN SkipLeadingZeros(Tail(s)) ELSE s

AllDigits(s) == \A k \in 1..Len(s) : IsAsciiDigit(s[k])

\* Ordering values
Reverse(o) == IF o = "Less" THEN "Greater" ELSE IF o = "Greater" THEN "Less" ELSE "Equal"

IntCmp(i, j) == IF i < j THEN "Less" ELSE IF i > j THEN "Greater" ELSE "Equal"

\* <[u8] as Ord>::cmp, which str::cmp delegates to: lexicographic by byte
RECURSIVE StrCmp(_, _)
StrCmp(s, t) ==
    IF s = <<>> /\ t = <<>> THEN "Equal"
    ELSE IF s = <<>> THEN "Less"
    ELSE IF t = <<>> THEN "Greater"
    ELSE IF s[1] # t[1] THEN IntCmp(s[1], t[1])
    ELSE StrCmp(Tail(s), Tail(t))

\* ------------------------------------------------------------------------
\* Integer parsing
\* ------------------------------------------------------------------------

\* decimal value of a digit string (Horner), for values TLC can hold
RECURSIVE DecValue(_, _)
DecValue(ds, acc) ==
    IF ds = <<>> THEN acc ELSE DecValue(Tail(ds), acc * 10 + (ds[1] - ZERO))

\* numeric comparison of two digit strings without leading zeros
DigitsCmp(x, y) ==
    IF Len(x) # Len(y) THEN IntCmp(Len(x), Len(y)) ELSE StrCmp(x, y)

\* "4294967295", u32::MAX
U32_MAX_DIGITS == <<52, 50, 57, 52, 57, 54, 55, 50, 57, 53>>

\* "2147483647", i32::MAX
I32_MAX_DIGITS == <<50, 49, 52, 55, 52, 56, 51, 54, 52, 55>>

\* "2147483648", the magnitude of i32::MIN
I32_MIN_DIGITS == <<50, 49, 52, 55, 52, 56, 51, 54, 52, 56>>

\* str::parse::<u32>: optional '+', then one or more ASCII digits, Err on
\* an empty string, a non-digit or a value above u32::MAX
ParseU32(s) ==
    LET ds == IF s # <<>> /\ s[1] = PLUS THEN Tail(s) ELSE s
    IN  IF ds = <<>> \/ ~AllDigits(ds)
             \/ DigitsCmp(SkipLeadingZeros(ds), U32_MAX_DIGITS) = "Greater"
        THEN [ok |-> FALSE, val |-> 0]
        ELSE [ok |-> TRUE, val |-> DecValue(ds, 0)]

\* str::parse::<BigUint>: Err on an empty string or a non-digit; the value
\* is exact, held as its decimal digits without leading zeros
ParseBigUint(s) ==
    LET ds == IF s # <<>> /\ s[1] = PLUS THEN Tail(s) ELSE s
    IN  IF ds = <<>> \/ ~AllDigits(ds)
        THEN [ok |-> FALSE, val |-> <<>>]
        ELSE [ok |-> TRUE, val |-> SkipLeadingZeros(ds)]

\* ------------------------------------------------------------------------
\* Item (item.rs)
\* ------------------------------------------------------------------------

\* Item::Int(u32)
Int_(n) == [kind |-> "Int", num |-> n, str |-> <<>>]

\* Item::BigInt(BigUint), the value as decimal digits
BigInt_(ds) == [kind |-> "BigInt", num |-> 0, str |-> ds]

\* Item::String(String)
String_(s) == [kind |-> "String", num |-> 0, str |-> s]

S_alpha == <<97, 108, 112, 104, 97>>
S_beta == <<98, 101, 116, 97>>
S_milestone == <<109, 105, 108, 101, 115, 116, 111, 110, 101>>
S_rc == <<114, 99>>
S_snapshot == <<115, 110, 97, 112, 115, 104, 111, 116>>
S_sp == <<115, 112>>
S_ga == <<103, 97>>
S_final == <<102, 105, 110, 97, 108>>
S_release == <<114, 101, 108, 101, 97, 115, 101>>
S_cr == <<99, 114>>
S_a == <<97>>
S_b == <<98>>
S_m == <<109>>

\* Item::from_str expanding a, b and m whatever follows them.
\* Sensitivity variant for alias folding.
Item_from_str_any_follower(s0, followed_by_digit) ==
    LET folded(s) ==
            IF s = S_a THEN S_alpha
            ELSE IF s = S_b THEN S_beta
            ELSE IF s = S_m THEN S_milestone
            ELSE IF s = S_ga THEN <<>>
            ELSE IF s = S_final THEN <<>>
            ELSE IF s = S_release THEN <<>>
            ELSE IF s = S_cr THEN S_rc
            ELSE s
    IN  String_(folded(SkipLeadingZeros(s0)))

\* Item::from_str
Item_from_str(s0, followed_by_digit) ==
    LET folded(s) ==
            IF followed_by_digit /\ s = S_a THEN S_alpha
            ELSE IF followed_by_digit /\ s = S_b THEN S_beta
            ELSE IF followed_by_digit /\ s = S_m THEN S_milestone
            ELSE IF s = S_ga THEN <<>>
            ELSE IF s = S_final THEN <<>>
            ELSE IF s = S_release THEN <<>>
            ELSE IF s = S_cr THEN S_rc
            ELSE s
    IN  String_(folded(SkipLeadingZeros(s0)))

\* Item::is_null without the Int(0) arm: a zero is then kept as an item.
\* Sensitivity variant for the trailing-zero equivalence.
Item_is_null_string_only(it) == it.kind = "String" /\ it.str = <<>>

\* Item::is_null
Item_is_null(it) ==
    \/ (it.kind = "Int" /\ it.num = 0)
    \/ (it.kind = "String" /\ it.str = <<>>)

\* Item::better_than_nothing
Item_better_than_nothing(it, more_segments) ==
    IF it.kind = "Int" /\ more_segments THEN "Greater"
    ELSE IF it.kind = "Int" /\ it.num = 0 THEN "Equal"
    ELSE IF it.kind = "Int" THEN "Greater"
    ELSE IF it.kind = "BigInt" THEN "Greater"
    ELSE IF more_segments THEN "Less"
    ELSE IF it.str \in {S_alpha, S_beta, S_milestone, S_rc, S_snapshot} THEN "Less"
    ELSE IF it.str = <<>> THEN "Equal"
    ELSE "Greater"

\* <Item as PartialEq>::eq
Item_eq(x, y) ==
    IF x.kind = "Int" /\ y.kind = "Int" THEN x.num = y.num
    ELSE IF x.kind = "String" /\ y.kind = "String" THEN x.str = y.str
    ELSE FALSE

\* ranking with "snapshot" placed below "rc".
\* Sensitivity variant for the qualifier ranking.
ranking_snapshot_below_rc(s) ==
    IF s = S_alpha THEN 0
    ELSE IF s = S_beta THEN 1
    ELSE IF s = S_milestone THEN 2
    ELSE IF s = S_snapshot THEN 3
    ELSE IF s = S_rc THEN 4
    ELSE IF s = <<>> THEN 5
    ELSE IF s = S_sp THEN 6
    ELSE 7

\* fn ranking inside <Item as Ord>::cmp
ranking(s) ==
    IF s = S_alpha THEN 0
    ELSE IF s = S_beta THEN 1
    ELSE IF s = S_milestone THEN 2
    ELSE IF s = S_rc THEN 3
    ELSE IF s = S_snapshot THEN 4
    ELSE IF s = <<>> THEN 5
    ELSE IF s = S_sp THEN 6
    ELSE 7

\* <BigUint as Ord>::cmp on values held as canonical decimal digits
BigUint_cmp(x, y) == DigitsCmp(x, y)

\* Item::cmp with the String-against-integer arms exchanged.
\* Sensitivity variant for the order of a qualifier and a numeric suffix.
Item_cmp_string_above_int(x, y) ==
    IF x.kind = "Int" /\ y.kind = "Int" THEN IntCmp(x.num, y.num)
    ELSE IF x.kind = "BigInt" /\ y.kind = "BigInt" THEN BigUint_cmp(x.str, y.str)
    ELSE IF x.kind = "String" /\ y.kind = "String" THEN
        IF ranking(x.str) = 7 /\ ranking(y.str) = 7
        THEN StrCmp(x.str, y.str)
        ELSE IntCmp(ranking(x.str), ranking(y.str))
    ELSE IF \/ (x.kind = "Int" /\ y.kind = "BigInt")
            \/ (x.kind = "Int" /\ y.kind = "String")
            \/ (x.kind = "BigInt" /\ y.kind = "String") THEN "Less"
    ELSE "Greater"

\* <Item as Ord>::cmp
Item_cmp(x, y) ==
    IF x.kind = "Int" /\ y.kind = "Int" THEN IntCmp(x.num, y.num)
    ELSE IF x.kind = "BigInt" /\ y.kind = "BigInt" THEN BigUint_cmp(x.str, y.str)
    ELSE IF x.kind = "String" /\ y.kind = "String" THEN
        IF ranking(x.str) = 7 /\ ranking(y.str) = 7
        THEN StrCmp(x.str, y.str)
        ELSE IntCmp(ranking(x.str), ranking(y.str))
    ELSE IF \/ (x.kind = "Int" /\ y.kind = "BigInt")
            \/ (x.kind = "String" /\ y.kind = "Int")
            \/ (x.kind = "String" /\ y.kind = "BigInt") THEN "Less"
    ELSE "Greater"

\* ------------------------------------------------------------------------
\* Segment (item.rs)
\* ------------------------------------------------------------------------

\* the loop of Segment::new: remove null items from the back
RECURSIVE StripTrailingNullItems(_)
StripTrailingNullItems(items) ==
    IF items # <<>> /\ Item_is_null(items[Len(items)])
    THEN StripTrailingNullItems(SubSeq(items, 1, Len(items) - 1))
    ELSE items

\* a segment built without stripping its trailing null items
Segment_new_unstripped(items) == [items |-> items, last_segment |-> FALSE]

\* Segment::new
Segment_new(items) ==
    [items |-> StripTrailingNullItems(items), last_segment |-> FALSE]

\* Segment::is_null
Segment_is_null(seg) ==
    seg.items = <<>> \/ \A k \in 1..Len(seg.items) : Item_is_null(seg.items[k])

\* Segment::set_last_segment
Segment_set_last_segment(seg) == [seg EXCEPT !.last_segment = TRUE]

\* Segment::better_than_nothing: the first item that is not Equal decides
RECURSIVE Segment_btn_from(_, _)
Segment_btn_from(items, k) ==
    IF k > Len(items) THEN "Equal"
    ELSE LET decided(better) == IF better # "Equal" THEN better
                                 ELSE Segment_btn_from(items, k + 1)
         IN  decided(Item_better_than_nothing(items[k], FALSE))

Segment_better_than_nothing(seg) == Segment_btn_from(seg.items, 1)

\* <Segment as PartialEq>::eq: Vec<Item> equality, element by element
Segment_eq(x, y) ==
    /\ Len(x.items) = Len(y.items)
    /\ \A k \in 1..Len(x.items) : Item_eq(x.items[k], y.items[k])

\* Segment::cmp passing the same side's flag in both absent-item arms.
\* Sensitivity variant for the antisymmetry of the order.
Segment_cmp_at_same_flag(self, other, k) ==
    IF k <= Len(self.items) /\ k <= Len(other.items)
    THEN Item_cmp(self.items[k], other.items[k])
    ELSE IF k <= Len(self.items)
    THEN Item_better_than_nothing(self.items[k], ~other.last_segment)
    ELSE Reverse(Item_better_than_nothing(other.items[k], ~other.last_segment))

\* the match of <Segment as Ord>::cmp at position k of the two item lists,
\* at least one of which has an item there
Segment_cmp_at(self, other, k) ==
    IF k <= Len(self.items) /\ k <= Len(other.items)
    THEN Item_cmp(self.items[k], other.items[k])
    ELSE IF k <= Len(self.items)
    THEN Item_better_than_nothing(self.items[k], ~other.last_segment)
    ELSE Reverse(Item_better_than_nothing(other.items[k], ~self.last_segment))

\* the loop of <Segment as Ord>::cmp, from position k on
RECURSIVE Segment_cmp_from(_, _, _)
Segment_cmp_from(self, other, k) ==
    IF k > Len(self.items) /\ k > Len(other.items) THEN "Equal"
    ELSE LET decided(order) == IF order # "Equal" THEN order
                                ELSE Segment_cmp_from(self, other, k + 1)
         IN  decided(Segment_cmp_at(self, other, k))

\* <Segment as Ord>::cmp
Segment_cmp(self, other) == Segment_cmp_from(self, other, 1)

\* ------------------------------------------------------------------------
\* ComparableVersion (mod.rs)
\* ------------------------------------------------------------------------

\* static MAX_U32_LEN: usize = 9
MAX_U32_LEN == 9

\* parse_item without the arbitrary-precision arm: every digit run goes
\* through the u32 parse.  Sensitivity variant for big-integer correctness.
parse_item_u32_only(s0, is_digit, followed_by_digit) ==
    LET small(r) == [panicked |-> FALSE, item |-> Int_(IF r.ok THEN r.val ELSE 0)]
        parsed(s) ==
            IF ~IsValidUtf8(s) THEN [panicked |-> TRUE, item |-> Int_(0)]
            ELSE IF is_digit THEN small(ParseU32(s))
            ELSE [panicked |-> FALSE, item |-> Item_from_str(s, followed_by_digit)]
    IN  parsed(SkipLeadingZeros(s0))

\* fn parse_item inside ComparableVersion::new.  The result carries the
\* item and whether the call panicked (the unwrap of the BigUint parse) or
\* from_utf8_unchecked was handed bytes that are not UTF-8.
parse_item(s0, is_digit, followed_by_digit) ==
    LET small(r) == [panicked |-> FALSE, item |-> Int_(IF r.ok THEN r.val ELSE 0)]
        big(r) == [panicked |-> ~r.ok, item |-> IF r.ok THEN BigInt_(r.val) ELSE Int_(0)]
        parsed(s) ==
            IF ~IsValidUtf8(s) THEN [panicked |-> TRUE, item |-> Int_(0)]
            ELSE IF is_digit /\ Len(s) <= MAX_U32_LEN THEN small(ParseU32(s))
            ELSE IF is_digit THEN big(ParseBigUint(s))
            ELSE [panicked |-> FALSE, item |-> Item_from_str(s, followed_by_digit)]
    IN  parsed(SkipLeadingZeros(s0))

\* parse_item(&lower[from..to], ..): the slice panics when out of range or
\* off a char boundary
parse_slice(lower, from, to, is_digit, followed_by_digit) ==
    IF ~SliceOk(lower, from, to) THEN [panicked |-> TRUE, item |-> Int_(0)]
    ELSE parse_item(Slice(lower, from, to), is_digit, followed_by_digit)

\* The byte loop with `start_index = i` after a delimiter, so that the next
\* item keeps the delimiter.  Sensitivity variant for totality.
ScanByte_keep_delimiter(lower, i, st) ==
    LET c == lower[i + 1]
        will_be_digit == c >= ZERO /\ c <= NINE
        pushed(cur, panicked) ==
            [segments |-> IF c = DASH THEN Append(st.segments, Segment_new(cur))
                          ELSE st.segments,
             cur_segment |-> IF c = DASH THEN <<>> ELSE cur,
             is_digit |-> st.is_digit,
             start_index |-> i,
             panicked |-> panicked]
        delimiter(p) == pushed(Append(st.cur_segment, p.item), p.panicked)
        boundary(p) ==
            [segments |-> Append(st.segments,
                                 Segment_new(Append(st.cur_segment, p.item))),
             cur_segment |-> <<>>,
             is_digit |-> will_be_digit,
             start_index |-> i,
             panicked |-> p.panicked]
    IN  IF c = DOT \/ c = DASH THEN
            delimiter(IF i = st.start_index
                      THEN [panicked |-> FALSE, item |-> Int_(0)]
                      ELSE parse_slice(lower, st.start_index, i, st.is_digit, FALSE))
        ELSE IF i > st.start_index /\ will_be_digit # st.is_digit THEN
            boundary(parse_slice(lower, st.start_index, i, st.is_digit, will_be_digit))
        ELSE [st EXCEPT !.is_digit = will_be_digit]

\* one iteration of the byte loop of ComparableVersion::new, at offset i
ScanByte(lower, i, st) ==
    LET c == lower[i + 1]
        will_be_digit == c >= ZERO /\ c <= NINE
        pushed(cur, panicked) ==
            [segments |-> IF c = DASH THEN Append(st.segments, Segment_new(cur))
                          ELSE st.segments,
             cur_segment |-> IF c = DASH THEN <<>> ELSE cur,
             is_digit |-> st.is_digit,
             start_index |-> i + 1,
             panicked |-> panicked]
        delimiter(p) == pushed(Append(st.cur_segment, p.item), p.panicked)
        boundary(p) ==
            [segments |-> Append(st.segments,
                                 Segment_new(Append(st.cur_segment, p.item))),
             cur_segment |-> <<>>,
             is_digit |-> will_be_digit,
             start_index |-> i,
             panicked |-> p.panicked]
    IN  IF c = DOT \/ c = DASH THEN
            delimiter(IF i = st.start_index
                      THEN [panicked |-> FALSE, item |-> Int_(0)]
                      ELSE parse_slice(lower, st.start_index, i, st.is_digit, FALSE))
        ELSE IF i > st.start_index /\ will_be_digit # st.is_digit THEN
            boundary(parse_slice(lower, st.start_index, i, st.is_digit, will_be_digit))
        ELSE [st EXCEPT !.is_digit = will_be_digit]

\* the byte loop of ComparableVersion::new; a panic ends it
RECURSIVE ScanFrom(_, _, _)
ScanFrom(lower, i, st) ==
    IF i >= Len(lower) \/ st.panicked THEN st
    ELSE ScanFrom(lower, i + 1, ScanByte(lower, i, st))

\* "Strip trailing empty segments"
RECURSIVE StripTrailingNullSegments(_)
StripTrailingNullSegments(segments) ==
    IF segments # <<>> /\ Segment_is_null(segments[Len(segments)])
    THEN StripTrailingNullSegments(SubSeq(segments, 1, Len(segments) - 1))
    ELSE segments

\* the flag set on every segment
SetLastSegment_on_all(segments) ==
    [k \in 1..Len(segments) |-> Segment_set_last_segment(segments[k])]

\* "Set the flag on the last segment"
SetLastSegment(segments) ==
    IF segments = <<>> THEN segments
    ELSE [segments EXCEPT ![Len(segments)] = Segment_set_last_segment(@)]

\* ComparableVersion::new
ComparableVersion_new(s) ==
    LET st0 == [segments |-> <<>>, cur_segment |-> <<>>, is_digit |-> FALSE,
                start_index |-> 0, panicked |-> FALSE]
        built(st1, cur, panicked) ==
            IF panicked
            THEN [orig |-> s, segments |-> <<>>, panicked |-> TRUE]
            ELSE [orig |-> s,
                  segments |-> SetLastSegment(StripTrailingNullSegments(
                                   Append(st1.segments, Segment_new(cur)))),
                  panicked |-> FALSE]
        tail(st1, p) == built(st1, Append(st1.cur_segment, p.item), p.panicked)
        scanned(lower, st1) ==
            IF ~st1.panicked /\ Len(lower) > st1.start_index
            THEN tail(st1, parse_slice(lower, st1.start_index, Len(lower),
                                       st1.is_digit, FALSE))
            ELSE built(st1, st1.cur_segment, st1.panicked)
        lowered(lower) == scanned(lower, ScanFrom(lower, 0, st0))
    IN  lowered(ToLowercase(s))

\* <ComparableVersion as PartialEq>::eq: Vec<Segment> equality
ComparableVersion_eq(self, other) ==
    /\ Len(self.segments) = Len(other.segments)
    /\ \A k \in 1..Len(self.segments) : Segment_eq(self.segments[k], other.segments[k])

\* the match of <ComparableVersion as Ord>::cmp at segment position k, where
\* at least one of the two versions has a segment
ComparableVersion_cmp_at(self, other, k) ==
    IF k <= Len(self.segments) /\ k <= Len(other.segments)
    THEN Segment_cmp(self.segments[k], other.segments[k])
    ELSE IF k <= Len(self.segments)
    THEN Segment_better_than_nothing(self.segments[k])
    ELSE Reverse(Segment_better_than_nothing(other.segments[k]))

\* the loop of <ComparableVersion as Ord>::cmp, from segment position k on
RECURSIVE ComparableVersion_cmp_from(_, _, _)
ComparableVersion_cmp_from(self, other, k) ==
    IF k > Len(self.segments) /\ k > Len(other.segments) THEN "Equal"
    ELSE LET decided(order) == IF order # "Equal" THEN order
                                ELSE ComparableVersion_cmp_from(self, other, k + 1)
         IN  decided(ComparableVersion_cmp_at(self, other, k))

\* <ComparableVersion as Ord>::cmp
ComparableVersion_cmp(self, other) == ComparableVersion_cmp_from(self, other, 1)

\* #[derive(Hash)] on ComparableVersion, Segment and Item: the data fed to
\* the hasher is every field in declaration order, orig first
ComparableVersion_hash(self) == <<self.orig, self.segments>>

\* u32::to_string: the decimal digits of n, "0" for zero
RECURSIVE u32_to_string(_)
u32_to_string(n) ==
    IF n < 10 THEN <<ZERO + n>>
    ELSE Append(u32_to_string(n \div 10), ZERO + (n % 10))

\* <Item as Display>::fmt: the number in decimal, or the string itself
Item_to_string(it) ==
    IF it.kind = "Int" THEN u32_to_string(it.num)
    ELSE IF it.kind = "BigInt" THEN (IF it.str = <<>> THEN <<ZERO>> ELSE it.str)
    ELSE it.str

\* join: the texts of strs with sep between each two neighbours
RECURSIVE join(_, _)
join(strs, sep) ==
    IF strs = <<>> THEN <<>>
    ELSE IF Len(strs) = 1 THEN strs[1]
    ELSE strs[1] \o sep \o join(Tail(strs), sep)

\* <Segment as Display>::fmt: the items joined by "."
Segment_to_string(seg) ==
    join([k \in 1..Len(seg.items) |-> Item_to_string(seg.items[k])], <<DOT>>)

\* ComparableVersion::canonical: the segments joined by "-"
canonical(self) ==
    join([k \in 1..Len(self.segments) |-> Segment_to_string(self.segments[k])], <<DASH>>)

\* ------------------------------------------------------------------------
\* ArtifactVersion (artifact_version.rs)
\* ------------------------------------------------------------------------

\* the magnitude-first Horner of a negative decimal, so that i32::MIN fits
RECURSIVE NegDecValue(_, _)
NegDecValue(ds, acc) ==
    IF ds = <<>> THEN acc ELSE NegDecValue(Tail(ds), acc * 10 - (ds[1] - ZERO))

\* str::parse::<i32>: optional sign, then one or more ASCII digits, Err on
\* an empty string, a lone sign, a non-digit or a value outside i32
ParseI32(s) ==
    LET neg == s # <<>> /\ s[1] = DASH
        ds == IF s # <<>> /\ (s[1] = PLUS \/ s[1] = DASH) THEN Tail(s) ELSE s
        value(mag) ==
            IF DigitsCmp(mag, IF neg THEN I32_MIN_DIGITS ELSE I32_MAX_DIGITS) = "Greater"
            THEN [ok |-> FALSE, val |-> 0]
            ELSE [ok |-> TRUE, val |-> IF neg THEN NegDecValue(mag, 0) ELSE DecValue(mag, 0)]
    IN  IF ds = <<>> \/ ~AllDigits(ds) THEN [ok |-> FALSE, val |-> 0]
        ELSE value(SkipLeadingZeros(ds))

\* 2^16: a u32 is held as its two 16-bit halves, [hi, lo]
HALF == 65536

\* `i as u32` for an i32 i: the two's-complement bit pattern, unchanged
AsU32(i) ==
    IF i >= 0 THEN [hi |-> i \div HALF, lo |-> i % HALF]
    ELSE LET x == -(i + 1)
         IN  [hi |-> (HALF - 1) - (x \div HALF), lo |-> (HALF - 1) - (x % HALF)]

\* the u32 0 the numeric fields start from
U32_ZERO == [hi |-> 0, lo |-> 0]

\* Option<String>
None_ == [some |-> FALSE, val |-> <<>>]

Some_(s) == [some |-> TRUE, val |-> s]

\* let last: u8 = 0; it is never assigned again
last == 0

\* s.bytes().nth(k).unwrap_or(b'_')
NthOr(s, k) == IF k < Len(s) THEN s[k + 1] ELSE UNDERSCORE

\* the closure `fallback`
fallback(s) ==
    LET version(comparable) ==
            [major |-> U32_ZERO, minor |-> U32_ZERO, incremental |-> U32_ZERO,
             build |-> U32_ZERO, qualifier |-> Some_(s), comparable |-> comparable,
             panicked |-> comparable.panicked]
    IN  version(ComparableVersion_new(s))

\* the struct literals `ArtifactVersion { major, minor, incremental, build,
\* qualifier, comparable: ComparableVersion::new(s) }` from the loop state
FromState(s, st) ==
    LET version(comparable) ==
            [major |-> st.major, minor |-> st.minor, incremental |-> st.incremental,
             build |-> st.build, qualifier |-> st.qualifier, comparable |-> comparable,
             panicked |-> st.panicked \/ comparable.panicked]
    IN  version(ComparableVersion_new(s))

\* `qualifier = Some(s[start_index..s.len()].to_string()); return ..`
ReturnRest(s, st) ==
    IF ~SliceOk(s, st.start_index, Len(s))
    THEN [st EXCEPT !.panicked = TRUE, !.ret = "value"]
    ELSE [st EXCEPT !.qualifier = Some_(Slice(s, st.start_index, Len(s))),
                    !.ret = "value"]

\* `if let Ok(i) = &s[start_index..to].parse::<i32>() { <field> = *i as u32 }
\*  else { return fallback() }`, the field named by the section
ParseField(s, st, to, section) ==
    IF ~SliceOk(s, st.start_index, to)
    THEN [st EXCEPT !.panicked = TRUE, !.ret = "value"]
    ELSE LET stored(i) ==
                 IF section = "Major" THEN [st EXCEPT !.major = i]
                 ELSE IF section = "Minor" THEN [st EXCEPT !.minor = i]
                 ELSE IF section = "Incremental" THEN [st EXCEPT !.incremental = i]
                 ELSE [st EXCEPT !.panicked = TRUE, !.ret = "value"]
             parsed(r) == IF ~r.ok THEN [st EXCEPT !.ret = "fallback"]
                          ELSE stored(AsU32(r.val))
         IN  parsed(ParseI32(Slice(s, st.start_index, to)))

\* one iteration of the byte loop of ArtifactVersion::new, at offset i
ArtifactStep(s, i, st) ==
    LET c == s[i + 1]
        sec == st.section
    IN  IF \/ (i = 0 /\ c = DOT)
           \/ (c = DASH /\ last = DOT)
           \/ (sec # "BuildOrQualifier" /\ sec # "DottedQualifier"
               /\ c = DOT /\ last = DOT)
        THEN [st EXCEPT !.ret = "fallback"]
        ELSE IF sec = "Major" /\ c = DOT THEN
            IF NthOr(s, st.start_index) = ZERO
            THEN ReturnRest(s, [st EXCEPT !.section = "Minor"])
            ELSE [ParseField(s, st, i, "Major") EXCEPT
                      !.section = "Minor", !.start_index = i + 1]
        ELSE IF sec = "Minor" /\ c = DOT THEN
            [ParseField(s, st, i, "Minor") EXCEPT
                 !.section = "Incremental", !.start_index = i + 1]
        ELSE IF sec = "Incremental" /\ c = DOT THEN
            [ParseField(s, st, i, "Incremental") EXCEPT
                 !.section = "DottedQualifier", !.start_index = i + 1]
        ELSE IF sec \in {"Major", "Minor", "Incremental"} /\ c = DASH THEN
            IF sec = "Major" /\ NthOr(s, st.start_index) = ZERO
            THEN ReturnRest(s, st)
            ELSE [ParseField(s, st, i, sec) EXCEPT
                      !.section = "BuildOrQualifier", !.start_index = i + 1]
        ELSE IF sec \in {"Major", "Minor", "Incremental"} /\ c < ZERO /\ c > NINE
            THEN [st EXCEPT !.ret = "fallback"]
        ELSE IF sec = "DottedQualifier" /\ c = DASH
            THEN [st EXCEPT !.ret = "fallback"]
        ELSE st

\* the byte loop of ArtifactVersion::new; a return or a panic ends it
RECURSIVE ArtifactLoop(_, _, _)
ArtifactLoop(s, i, st) ==
    IF i >= Len(s) \/ st.ret # "none" \/ st.panicked THEN st
    ELSE ArtifactLoop(s, i + 1, ArtifactStep(s, i, st))

\* the match after the loop, keeping the text of a parsed build number as
\* the qualifier too
ArtifactLast_build_and_qualifier(s, st) ==
    IF st.section = "Major" THEN
        IF NthOr(s, st.start_index) = ZERO THEN ReturnRest(s, st)
        ELSE ParseField(s, st, Len(s), "Major")
    ELSE IF st.section = "Minor" THEN ParseField(s, st, Len(s), "Minor")
    ELSE IF st.section = "Incremental" THEN ParseField(s, st, Len(s), "Incremental")
    ELSE IF ~SliceOk(s, st.start_index, Len(s)) THEN [st EXCEPT !.panicked = TRUE]
    ELSE LET qualified(sec) == [st EXCEPT !.qualifier = Some_(sec)]
             built(sec, r) == IF r.ok THEN [st EXCEPT !.build = AsU32(r.val),
                                                      !.qualifier = Some_(sec)]
                              ELSE qualified(sec)
             rest(sec) ==
                 IF st.section = "BuildOrQualifier" THEN
                     IF NthOr(sec, 0) = ZERO THEN qualified(sec)
                     ELSE built(sec, ParseI32(sec))
                 ELSE IF AllDigits(sec) THEN [st EXCEPT !.ret = "fallback"]
                 ELSE qualified(sec)
         IN  rest(Slice(s, st.start_index, Len(s)))

\* the match after the loop, keeping a numeric fourth component as the
\* qualifier
ArtifactLast_numeric_qualifier(s, st) ==
    IF st.section = "Major" THEN
        IF NthOr(s, st.start_index) = ZERO THEN ReturnRest(s, st)
        ELSE ParseField(s, st, Len(s), "Major")
    ELSE IF st.section = "Minor" THEN ParseField(s, st, Len(s), "Minor")
    ELSE IF st.section = "Incremental" THEN ParseField(s, st, Len(s), "Incremental")
    ELSE IF ~SliceOk(s, st.start_index, Len(s)) THEN [st EXCEPT !.panicked = TRUE]
    ELSE LET qualified(sec) == [st EXCEPT !.qualifier = Some_(sec)]
             built(sec, r) == IF r.ok THEN [st EXCEPT !.build = AsU32(r.val)]
                              ELSE qualified(sec)
             rest(sec) ==
                 IF st.section = "BuildOrQualifier" THEN
                     IF NthOr(sec, 0) = ZERO THEN qualified(sec)
                     ELSE built(sec, ParseI32(sec))
                 ELSE IF sec = <<>> THEN [st EXCEPT !.ret = "fallback"]
                 ELSE qualified(sec)
         IN  rest(Slice(s, st.start_index, Len(s)))

\* "Parse last section": the match after the loop
ArtifactLast(s, st) ==
    IF st.section = "Major" THEN
        IF NthOr(s, st.start_index) = ZERO THEN ReturnRest(s, st)
        ELSE ParseField(s, st, Len(s), "Major")
    ELSE IF st.section = "Minor" THEN ParseField(s, st, Len(s), "Minor")
    ELSE IF st.section = "Incremental" THEN ParseField(s, st, Len(s), "Incremental")
    ELSE IF ~SliceOk(s, st.start_index, Len(s)) THEN [st EXCEPT !.panicked = TRUE]
    ELSE LET qualified(sec) == [st EXCEPT !.qualifier = Some_(sec)]
             built(sec, r) == IF r.ok THEN [st EXCEPT !.build = AsU32(r.val)]
                              ELSE qualified(sec)
             rest(sec) ==
                 IF st.section = "BuildOrQualifier" THEN
                     IF NthOr(sec, 0) = ZERO THEN qualified(sec)
                     ELSE built(sec, ParseI32(sec))
                 ELSE IF AllDigits(sec) THEN [st EXCEPT !.ret = "fallback"]
                 ELSE qualified(sec)
         IN  rest(Slice(s, st.start_index, Len(s)))

\* ArtifactVersion::new
ArtifactVersion_new(s) ==
    LET st0 == [section |-> "Major", start_index |-> 0,
                major |-> U32_ZERO, minor |-> U32_ZERO, incremental |-> U32_ZERO,
                build |-> U32_ZERO, qualifier |-> None_,
                ret |-> "none", panicked |-> FALSE]
        returned(st2) == IF ~st2.panicked /\ st2.ret = "fallback" THEN fallback(s)
                         ELSE FromState(s, st2)
        looped(st1) == returned(IF st1.ret = "none" /\ ~st1.panicked
                                THEN ArtifactLast(s, st1) ELSE st1)
    IN  looped(ArtifactLoop(s, 0, st0))

\* <ArtifactVersion as Hash>::hash
ArtifactVersion_hash(self) == ComparableVersion_hash(self.comparable)

\* <ArtifactVersion as PartialEq>::eq
ArtifactVersion_eq(self, other) == ComparableVersion_eq(self.comparable, other.comparable)

\* a comparison that looks at the major field before the comparable
ArtifactVersion_cmp_major_first(self, other) ==
    IF self.major # other.major
    THEN IntCmp(self.major.hi * HALF + self.major.lo,
                other.major.hi * HALF + other.major.lo)
    ELSE ComparableVersion_cmp(self.comparable, other.comparable)

\* <ArtifactVersion as Ord>::cmp
ArtifactVersion_cmp(self, other) == ComparableVersion_cmp(self.comparable, other.comparable)

\* ------------------------------------------------------------------------
\* Inputs
\* ------------------------------------------------------------------------

\* The pieces version texts are assembled from, most basic first:
\* "1"  "."  "-"  "x"  "rc"  "0"  "10000000000"  "A"  U+00C9 (C3 89)  "ga"
\* "2"  "10000000001"  "sp"
PIECES ==
    << <<49>>, <<DOT>>, <<DASH>>, <<120>>, <<114, 99>>, <<ZERO>>,
       <<49, 48, 48, 48, 48, 48, 48, 48, 48, 48, 48>>, <<65>>, <<195, 137>>,
       <<103, 97>>, <<50>>,
       <<49, 48, 48, 48, 48, 48, 48, 48, 48, 48, 49>>, <<115, 112>> >>

\* the first n pieces
FirstPieces(n) == {PIECES[k] : k \in 1..(IF n < Len(PIECES) THEN n ELSE Len(PIECES))}

\* every concatenation of at most n pieces drawn from P
RECURSIVE Texts(_, _)
Texts(P, n) ==
    IF n = 0 THEN {<<>>}
    ELSE LET shorter == Texts(P, n - 1)
         IN  shorter \cup {t \o p : t \in shorter, p \in P}

\* how many pieces the single-text cases draw from
NumPieces == 10

\* how many pieces a single text is made of at most
MaxPieces == 3

\* ------------------------------------------------------------------------
\* Vocabularies of the structured cases
\* ------------------------------------------------------------------------

\* letter runs, as they may be written in a version:
\* "a"  "b"  "m"  "ga"  "final"  "release"  "cr"  "rc"
\* "alpha"  "beta"  "milestone"  "snapshot"  "sp"  "x"  "xyz"  "A"
\* "Cr"  "RELeaSE"  "SNAPSHOT"  "am"  U+00C9  "M"  "Ga"  "abc"
\* "FinaL"
WORDS ==
    << <<97>>, <<98>>, <<109>>, <<103, 97>>,
       <<102, 105, 110, 97, 108>>, <<114, 101, 108, 101, 97, 115, 101>>, <<99, 114>>, <<114, 99>>,
       <<97, 108, 112, 104, 97>>, <<98, 101, 116, 97>>, <<109, 105, 108, 101, 115, 116, 111, 110, 101>>, <<115, 110, 97, 112, 115, 104, 111, 116>>,
       <<115, 112>>, <<120>>, <<120, 121, 122>>, <<65>>,
       <<67, 114>>, <<82, 69, 76, 101, 97, 83, 69>>, <<83, 78, 65, 80, 83, 72, 79, 84>>, <<97, 109>>,
       <<195, 137>>, <<77>>, <<71, 97>>, <<97, 98, 99>>,
       <<70, 105, 110, 97, 76>> >>

\* digit runs:
\* "1"  "123"  "10000000000"  "10000000001"  "999999999"  "9999999999"  "1000000000"  "0000000001"
\* "0"  "12345678901234567890"  "2"
NUMS ==
    << <<49>>, <<49, 50, 51>>, <<49, 48, 48, 48, 48, 48, 48, 48, 48, 48, 48>>,
       <<49, 48, 48, 48, 48, 48, 48, 48, 48, 48, 49>>, <<57, 57, 57, 57, 57, 57, 57, 57, 57>>, <<57, 57, 57, 57, 57, 57, 57, 57, 57, 57>>,
       <<49, 48, 48, 48, 48, 48, 48, 48, 48, 48>>, <<48, 48, 48, 48, 48, 48, 48, 48, 48, 49>>, <<48>>,
       <<49, 50, 51, 52, 53, 54, 55, 56, 57, 48, 49, 50, 51, 52, 53, 54, 55, 56, 57, 48>>, <<50>> >>

\* numeric bases:
\* "1"  "2.0.1"  "0"  "1.2.3"  "10000000000.1"
BASES ==
    << <<49>>, <<50, 46, 48, 46, 49>>, <<48>>,
       <<49, 46, 50, 46, 51>>, <<49, 48, 48, 48, 48, 48, 48, 48, 48, 48, 48, 46, 49>> >>

\* how many of WORDS the cases draw from
NumWords == 21

\* how many of NUMS the cases draw from
NumNums == 8

\* how many of BASES the cases draw from
NumBases == 3

\* the first n elements of a vocabulary
First(voc, n) == {voc[k] : k \in 1..(IF n < Len(voc) THEN n ELSE Len(voc))}

\* a letter run: no digit and no delimiter
IsWord(q) ==
    q # <<>> /\ \A k \in 1..Len(q) : ~IsAsciiDigit(q[k]) /\ q[k] # DOT /\ q[k] # DASH

\* a digit run
IsNumber(q) == q # <<>> /\ AllDigits(q)

\* the longest suffix of t made of digits
RECURSIVE DigitTail(_)
DigitTail(t) ==
    IF t # <<>> /\ IsAsciiDigit(t[Len(t)])
    THEN DigitTail(SubSeq(t, 1, Len(t) - 1)) \o <<t[Len(t)]>>
    ELSE <<>>

\* ------------------------------------------------------------------------
\* The program: values are constructed from texts, then compared, tested
\* for equality and hashed, in the order the script gives (the helpers of
\* tests/comparable_version.rs do the same: construct, cmp both ways, ==).
\* A panic ends the run.
\* ------------------------------------------------------------------------

VARIABLES
    input,      \* the texts handed to the constructors, by slot
    script,     \* the operations to run, in order
    pc,         \* index of the next operation of the script
    cv,         \* slot -> ComparableVersion built by ComparableVersion::new
    av,         \* slot -> ArtifactVersion built by ArtifactVersion::new
    ord,        \* <<i, j>> -> result of cv[i].cmp(&cv[j])
    eqr,        \* <<i, j>> -> result of cv[i] == cv[j]
    hsh,        \* slot -> the data cv[i].hash(..) feeds to the hasher
    aord,       \* <<i, j>> -> result of av[i].cmp(&av[j])
    aeqr,       \* <<i, j>> -> result of av[i] == av[j]
    ahsh,       \* slot -> the data av[i].hash(..) feeds to the hasher
    can,        \* slot -> cv[i].canonical()
    recan       \* slot -> ComparableVersion::new(&can[i]), built from the canonical text

vars == <<input, script, pc, cv, av, ord, eqr, hsh, aord, aeqr, ahsh, can, recan>>

\* one operation of a script
Op(name, i, j) == [op |-> name, i |-> i, j |-> j]

\* a constructor call panicked: the program has stopped
Panicked ==
    \/ \E i \in DOMAIN cv : cv[i].panicked
    \/ \E i \in DOMAIN av : av[i].panicked
    \/ \E i \in DOMAIN recan : recan[i].panicked

\* the next operation is `name`
At(name) == pc <= Len(script) /\ ~Panicked /\ script[pc].op = name

\* the state before any operation has run
Start(cases, ops) ==
    /\ input \in cases
    /\ script = ops
    /\ pc = 1
    /\ cv = <<>>
    /\ av = <<>>
    /\ ord = <<>>
    /\ eqr = <<>>
    /\ hsh = <<>>
    /\ aord = <<>>
    /\ aeqr = <<>>
    /\ ahsh = <<>>
    /\ can = <<>>
    /\ recan = <<>>

\* let c = ComparableVersion::new(s)
New ==
    /\ At("new")
    /\ cv' = cv @@ (script[pc].i :> ComparableVersion_new(input[script[pc].i]))
    /\ pc' = pc + 1
    /\ UNCHANGED <<input, script, av, ord, eqr, hsh, aord, aeqr, ahsh, can, recan>>

\* let v = ArtifactVersion::new(s)
ArtNew ==
    /\ At("artnew")
    /\ av' = av @@ (script[pc].i :> ArtifactVersion_new(input[script[pc].i]))
    /\ pc' = pc + 1
    /\ UNCHANGED <<input, script, cv, ord, eqr, hsh, aord, aeqr, ahsh, can, recan>>

\* c1.cmp(&c2)
Cmp ==
    /\ At("cmp")
    /\ script[pc].i \in DOMAIN cv /\ script[pc].j \in DOMAIN cv
    /\ ord' = ord @@ (<<script[pc].i, script[pc].j>> :>
                        ComparableVersion_cmp(cv[script[pc].i], cv[script[pc].j]))
    /\ pc' = pc + 1
    /\ UNCHANGED <<input, script, cv, av, eqr, hsh, aord, aeqr, ahsh, can, recan>>

\* c1 == c2
Eq ==
    /\ At("eq")
    /\ script[pc].i \in DOMAIN cv /\ script[pc].j \in DOMAIN cv
    /\ eqr' = eqr @@ (<<script[pc].i, script[pc].j>> :>
                        ComparableVersion_eq(cv[script[pc].i], cv[script[pc].j]))
    /\ pc' = pc + 1
    /\ UNCHANGED <<input, script, cv, av, ord, hsh, aord, aeqr, ahsh, can, recan>>

\* c.hash(&mut hasher)
Hash ==
    /\ At("hash")
    /\ script[pc].i \in DOMAIN cv
    /\ hsh' = hsh @@ (script[pc].i :> ComparableVersion_hash(cv[script[pc].i]))
    /\ pc' = pc + 1
    /\ UNCHANGED <<input, script, cv, av, ord, eqr, aord, aeqr, ahsh, can, recan>>

\* v1.cmp(&v2)
ArtCmp ==
    /\ At("artcmp")
    /\ script[pc].i \in DOMAIN av /\ script[pc].j \in DOMAIN av
    /\ aord' = aord @@ (<<script[pc].i, script[pc].j>> :>
                          ArtifactVersion_cmp(av[script[pc].i], av[script[pc].j]))
    /\ pc' = pc + 1
    /\ UNCHANGED <<input, script, cv, av, ord, eqr, hsh, aeqr, ahsh, can, recan>>

\* v1 == v2
ArtEq ==
    /\ At("arteq")
    /\ script[pc].i \in DOMAIN av /\ script[pc].j \in DOMAIN av
    /\ aeqr' = aeqr @@ (<<script[pc].i, script[pc].j>> :>
                          ArtifactVersion_eq(av[script[pc].i], av[script[pc].j]))
    /\ pc' = pc + 1
    /\ UNCHANGED <<input, script, cv, av, ord, eqr, hsh, aord, ahsh, can, recan>>

\* v.hash(&mut hasher)
ArtHash ==
    /\ At("arthash")
    /\ script[pc].i \in DOMAIN av
    /\ ahsh' = ahsh @@ (script[pc].i :> ArtifactVersion_hash(av[script[pc].i]))
    /\ pc' = pc + 1
    /\ UNCHANGED <<input, script, cv, av, ord, eqr, hsh, aord, aeqr, can, recan>>

\* let c = v.canonical()
Canonical ==
    /\ At("canonical")
    /\ script[pc].i \in DOMAIN cv
    /\ can' = can @@ (script[pc].i :> canonical(cv[script[pc].i]))
    /\ pc' = pc + 1
    /\ UNCHANGED <<input, script, cv, av, ord, eqr, hsh, aord, aeqr, ahsh, recan>>

\* let again = ComparableVersion::new(&c)
Recanonical ==
    /\ At("recanonical")
    /\ script[pc].i \in DOMAIN can
    /\ recan' = recan @@ (script[pc].i :> ComparableVersion_new(can[script[pc].i]))
    /\ pc' = pc + 1
    /\ UNCHANGED <<input, script, cv, av, ord, eqr, hsh, aord, aeqr, ahsh, can>>

Next ==
    \/ New \/ ArtNew \/ Cmp \/ Eq \/ Hash \/ ArtCmp \/ ArtEq \/ ArtHash
    \/ Canonical \/ Recanonical

\* the operations on three slots, every operation of the API at least once
Script3 ==
    << Op("new", 1, 0), Op("new", 2, 0), Op("new", 3, 0),
       Op("artnew", 1, 0), Op("artnew", 2, 0), Op("artnew", 3, 0),
       Op("cmp", 1, 2), Op("cmp", 2, 1), Op("cmp", 1, 3), Op("cmp", 3, 1),
       Op("cmp", 2, 3), Op("cmp", 1, 1),
       Op("eq", 1, 2), Op("eq", 2, 1), Op("eq", 1, 1),
       Op("hash", 1, 0), Op("hash", 2, 0),
       Op("artcmp", 1, 2), Op("arteq", 1, 2),
       Op("arthash", 1, 0), Op("arthash", 2, 0),
       Op("canonical", 1, 0), Op("recanonical", 1, 0) >>

\* the operations on two slots, every operation of the API at least once
Script2 ==
    << Op("new", 1, 0), Op("new", 2, 0),
       Op("artnew", 1, 0), Op("artnew", 2, 0),
       Op("cmp", 1, 2), Op("cmp", 2, 1), Op("cmp", 1, 1),
       Op("eq", 1, 2), Op("eq", 2, 1), Op("eq", 1, 1),
       Op("hash", 1, 0), Op("hash", 2, 0),
       Op("artcmp", 1, 2), Op("arteq", 1, 2),
       Op("arthash", 1, 0), Op("arthash", 2, 0),
       Op("canonical", 1, 0), Op("recanonical", 1, 0) >>

\* has the comparison / equality test of slots i and j run
Compared(i, j) == <<i, j>> \in DOMAIN ord

Tested(i, j) == <<i, j>> \in DOMAIN eqr

\* ------------------------------------------------------------------------
\* Spec: a text s with s + ".0" and s + "-0", s any text of at most
\* MaxPieces pieces
\* ------------------------------------------------------------------------

ZeroCases ==
    {<<s, s \o <<DOT, ZERO>>, s \o <<DASH, ZERO>>>> :
        s \in Texts(FirstPieces(NumPieces), MaxPieces)}

Init == Start(ZeroCases, Script3)

Spec == Init /\ [][Next]_vars

\* ------------------------------------------------------------------------
\* SpecPair: every pair of texts of at most MaxPairPieces pieces
\* ------------------------------------------------------------------------

\* how many pieces the pairs draw from
NumPairPieces == 5

\* how many pieces a text of a pair is made of at most
MaxPairPieces == 2

PairCases ==
    LET T == Texts(FirstPieces(NumPairPieces), MaxPairPieces)
    IN  T \X T

InitPair == Start(PairCases, Script2)

SpecPair == InitPair /\ [][Next]_vars

\* ------------------------------------------------------------------------
\* SpecTriple: every triple of versions "1" + t, t a text of at most
\* MaxTriplePieces pieces
\* ------------------------------------------------------------------------

\* how many pieces the triples draw from
NumTriplePieces == 5

\* how many pieces follow the "1" of a text of a triple at most
MaxTriplePieces == 2

TripleCases ==
    LET T == {<<49>> \o t : t \in Texts(FirstPieces(NumTriplePieces), MaxTriplePieces)}
    IN  T \X T \X T

InitTriple == Start(TripleCases, Script3)

SpecTriple == InitTriple /\ [][Next]_vars

\* ------------------------------------------------------------------------
\* SpecAlias: a base n, a letter run w and an optional digit d written
\* without delimiters, n + w + d; the same with the run written out and
\* dashes inserted; and n alone
\* ------------------------------------------------------------------------

\* the single-digit bases "1" and "2" and the followers "", "2", "3"
AliasBases == {<<49>>, <<50>>}

AliasFollowers == {<<>>, <<50>>, <<51>>}

\* what the alias table makes of the lower-cased run w
Folded(w, followed_by_digit) ==
    LET l == ToLowercase(w)
    IN  IF l \in {S_ga, S_final, S_release} THEN <<>>
        ELSE IF l = S_cr THEN S_rc
        ELSE IF followed_by_digit /\ l = S_a THEN S_alpha
        ELSE IF followed_by_digit /\ l = S_b THEN S_beta
        ELSE IF followed_by_digit /\ l = S_m THEN S_milestone
        ELSE l

\* n + "-" + folded run, then "-" + d when there is a d
Dashed(n, w, d) ==
    n \o <<DASH>> \o Folded(w, d # <<>>) \o (IF d = <<>> THEN <<>> ELSE <<DASH>> \o d)

AliasCases ==
    {<<n \o w \o d, Dashed(n, w, d), n>> :
        n \in AliasBases, w \in First(WORDS, NumWords), d \in AliasFollowers}

InitAlias == Start(AliasCases, Script3)

SpecAlias == InitAlias /\ [][Next]_vars

\* ------------------------------------------------------------------------
\* SpecSuffix: a numeric base B with two suffixes, B-x and B-y, and B alone;
\* x and y are letter runs or digit runs
\* ------------------------------------------------------------------------

SuffixCases ==
    LET S == First(WORDS, NumWords) \cup First(NUMS, NumNums)
    IN  {<<b \o <<DASH>> \o x, b \o <<DASH>> \o y, b>> :
            b \in First(BASES, NumBases), x \in S, y \in S}

InitSuffix == Start(SuffixCases, Script3)

SpecSuffix == InitSuffix /\ [][Next]_vars

\* the suffix of slot i of a SpecSuffix case: what follows B and the dash
SuffixOf(i) == SubSeq(input[i], Len(input[3]) + 2, Len(input[i]))

\* ------------------------------------------------------------------------
\* SpecArt: one text, a head that leads into a zone of ArtifactVersion::new
\* followed by at most MaxParts parts with "." or "-" between them
\* ------------------------------------------------------------------------

\* heads: ""  "1."  "1.2."  "1.2.3."  "1-"  "1.2-"  "1.2.3-"  "1-x."  "1.2.3.4."
HEADS ==
    << <<>>,
       <<49, 46>>,
       <<49, 46, 50, 46>>,
       <<49, 46, 50, 46, 51, 46>>,
       <<49, 45>>,
       <<49, 46, 50, 45>>,
       <<49, 46, 50, 46, 51, 45>>,
       <<49, 45, 120, 46>>,
       <<49, 46, 50, 46, 51, 46, 52, 46>> >>

\* parts: "1"  ""  "0"  "09"  "x"  "2147483648"  "200705301630"  "2147483647"  "beta1"
PARTS ==
    << <<49>>,
       <<>>,
       <<48>>,
       <<48, 57>>,
       <<120>>,
       <<50, 49, 52, 55, 52, 56, 51, 54, 52, 56>>,
       <<50, 48, 48, 55, 48, 53, 51, 48, 49, 54, 51, 48>>,
       <<50, 49, 52, 55, 52, 56, 51, 54, 52, 55>>,
       <<98, 101, 116, 97, 49>> >>

\* how many of HEADS the cases draw from
NumHeads == 8

\* how many of PARTS the cases draw from
NumParts == 6

\* how many parts follow the head at most
MaxParts == 2

\* every text of 1..n parts drawn from P with one delimiter between
\* neighbours
RECURSIVE Delimited(_, _)
Delimited(P, n) ==
    IF n <= 1 THEN P
    ELSE LET shorter == Delimited(P, n - 1)
         IN  shorter \cup {t \o d \o q : t \in shorter, d \in {<<DOT>>, <<DASH>>}, q \in P}

ArtCases ==
    {<<h \o t>> : h \in First(HEADS, NumHeads),
                  t \in Delimited(First(PARTS, NumParts), MaxParts)}

\* the operations on one slot, every operation of the API once
Script1 ==
    << Op("new", 1, 0), Op("artnew", 1, 0), Op("cmp", 1, 1), Op("eq", 1, 1),
       Op("hash", 1, 0), Op("artcmp", 1, 1), Op("arteq", 1, 1), Op("arthash", 1, 0),
       Op("canonical", 1, 0), Op("recanonical", 1, 0) >>

InitArt == Start(ArtCases, Script1)

SpecArt == InitArt /\ [][Next]_vars

\* ------------------------------------------------------------------------
\* SpecBoundary: a text with a letter run next to a digit run, and the same
\* text with a "-" between the two runs; before them "", "1.", "x-" or "2"
\* ------------------------------------------------------------------------

BoundaryPrefixes == {<<>>, <<49, DOT>>, <<120, DASH>>, <<50>>}

BoundaryCases ==
    LET W == First(WORDS, NumWords)
        N == First(NUMS, NumNums)
    IN  {<<b \o r[1] \o r[2], b \o r[1] \o <<DASH>> \o r[2]>> :
            b \in BoundaryPrefixes, r \in (W \X N) \cup (N \X W)}

InitBoundary == Start(BoundaryCases, Script2)

SpecBoundary == InitBoundary /\ [][Next]_vars

\* ------------------------------------------------------------------------
\* The order laws
\* ------------------------------------------------------------------------

\* C1: the order is transitive: if new(a) < new(b) and new(b) < new(c)
\* under cmp then new(a) < new(c).
C1_Transitive ==
    (Compared(1, 2) /\ Compared(2, 3) /\ Compared(1, 3)) =>
        ((ord[<<1, 2>>] = "Less" /\ ord[<<2, 3>>] = "Less") => ord[<<1, 3>>] = "Less")

\* C2: the order is antisymmetric and total: cmp(new(a), new(b)) is the
\* reverse of cmp(new(b), new(a)), cmp(new(a), new(a)) is Equal, and exactly
\* one of a < b, a = b, a > b holds.
C2_Antisymmetric ==
    (Compared(1, 2) /\ Compared(2, 1) /\ Compared(1, 1)) =>
        /\ ord[<<1, 2>>] = Reverse(ord[<<2, 1>>])
        /\ ord[<<1, 1>>] = "Equal"
        /\ Cardinality({r \in {"lt", "eq", "gt"} :
                \/ (r = "lt" /\ ord[<<1, 2>>] = "Less")
                \/ (r = "eq" /\ ord[<<1, 2>>] = "Equal")
                \/ (r = "gt" /\ ord[<<2, 1>>] = "Less")}) = 1

\* two versions with a different number of segments have been compared in
\* both directions, the first being the lesser
C2_Witness ==
    /\ Compared(1, 2) /\ Compared(2, 1) /\ Compared(1, 1)
    /\ ord[<<1, 2>>] = "Less"
    /\ Len(cv[1].segments) > Len(cv[2].segments)
    /\ Len(cv[2].segments) > 0

\* C3: equality agrees with the order: new(a) == new(b) exactly when
\* cmp(new(a), new(b)) is Equal, and new(a) == new(a) for every a.
C3_EqAgreesWithCmp ==
    (Tested(1, 2) /\ Tested(1, 1) /\ Compared(1, 2)) =>
        /\ eqr[<<1, 2>>] <=> (ord[<<1, 2>>] = "Equal")
        /\ eqr[<<1, 1>>]

\* C4: hashing agrees with equality: two ComparableVersion values, or two
\* ArtifactVersion values, that are == feed identical data to the hasher.
C4_HashAgreesWithEq ==
    /\ (Tested(1, 2) /\ 1 \in DOMAIN hsh /\ 2 \in DOMAIN hsh) =>
            (eqr[<<1, 2>>] => hsh[1] = hsh[2])
    /\ (<<1, 2>> \in DOMAIN aeqr /\ 1 \in DOMAIN ahsh /\ 2 \in DOMAIN ahsh) =>
            (aeqr[<<1, 2>>] => ahsh[1] = ahsh[2])

\* ------------------------------------------------------------------------
\* Construction
\* ------------------------------------------------------------------------

\* C5: construction is total: ComparableVersion::new and ArtifactVersion::new
\* return a value for every text, without a failed unwrap, an out-of-range or
\* off-boundary slice, or a reached unreachable!.
C5_ConstructionTotal ==
    /\ \A i \in DOMAIN cv : ~cv[i].panicked
    /\ \A i \in DOMAIN av : ~av[i].panicked
    /\ pc > 6 => (DOMAIN cv = {1, 2, 3} /\ DOMAIN av = {1, 2, 3})

\* both constructors have returned for "-" U+00C9 "10000000000": a leading
\* delimiter, non-ASCII text and a digit run beyond the u32 width
C5_Witness ==
    /\ 1 \in DOMAIN cv /\ 1 \in DOMAIN av
    /\ input[1] = <<DASH, 195, 137, 49, 48, 48, 48, 48, 48, 48, 48, 48, 48, 48>>
    /\ Len(cv[1].segments) = 3
    /\ av[1].qualifier.some

\* C6: trailing zeros do not change a version: new(s), new(s + ".0") and
\* new(s + "-0") all compare Equal to each other.
C6_TrailingZeros ==
    /\ Compared(1, 2) => ord[<<1, 2>>] = "Equal"
    /\ Compared(2, 1) => ord[<<2, 1>>] = "Equal"
    /\ Compared(1, 3) => ord[<<1, 3>>] = "Equal"
    /\ Compared(3, 1) => ord[<<3, 1>>] = "Equal"
    /\ Compared(2, 3) => ord[<<2, 3>>] = "Equal"

\* "1-x", "1-x.0" and "1-x-0" have been compared pairwise
C6_Witness ==
    /\ input[1] = <<49, DASH, 120>>
    /\ input[2] = <<49, DASH, 120, DOT, ZERO>>
    /\ input[3] = <<49, DASH, 120, DASH, ZERO>>
    /\ Compared(1, 2) /\ Compared(1, 3) /\ Compared(2, 3)

\* ------------------------------------------------------------------------
\* Qualifiers
\* ------------------------------------------------------------------------

\* the segments of n + w + d, n and d single digits: [n], [folded w], [d],
\* a null run leaving an empty segment, trailing empty segments dropped, the
\* last one flagged
AliasSegments(n, fold, d) ==
    LET segN(flag) == [items |-> <<Int_(n[1] - ZERO)>>, last_segment |-> flag]
        segW(flag) == [items |-> IF fold = <<>> THEN <<>> ELSE <<String_(fold)>>,
                       last_segment |-> flag]
        segD == [items |-> <<Int_(d[1] - ZERO)>>, last_segment |-> TRUE]
    IN  IF d # <<>> THEN <<segN(FALSE), segW(FALSE), segD>>
        ELSE IF fold # <<>> THEN <<segN(FALSE), segW(TRUE)>>
        ELSE <<segN(TRUE)>>

\* C7: alias folding: in any letter case, a run that is exactly ga, final or
\* release is no qualifier (n + "ga" equals n), cr is rc, a run that is
\* exactly a, b or m immediately followed by a digit is alpha, beta or
\* milestone ("1b2" equals "1-beta-2"), and every other run is kept.
C7_AliasFolding ==
    LET n == input[3]
        rest == SubSeq(input[1], Len(n) + 1, Len(input[1]))
        d == DigitTail(rest)
        w == SubSeq(rest, 1, Len(rest) - Len(d))
        fold == Folded(w, d # <<>>)
    IN  /\ 1 \in DOMAIN cv => cv[1].segments = AliasSegments(n, fold, d)
        /\ Compared(1, 2) => ord[<<1, 2>>] = "Equal"
        /\ Tested(1, 2) => eqr[<<1, 2>>]
        /\ (fold = <<>> /\ d = <<>> /\ Compared(1, 3)) => ord[<<1, 3>>] = "Equal"
        /\ (fold # <<>> /\ 1 \in DOMAIN cv) =>
                cv[1].segments[2].items = <<String_(fold)>>

\* "1b2" and "1-beta-2" have been compared and tested for equality
C7_Witness ==
    /\ input[1] = <<49, 98, 50>>
    /\ input[2] = <<49, DASH>> \o S_beta \o <<DASH, 50>>
    /\ Compared(1, 2) /\ Tested(1, 2)
    /\ eqr[<<1, 2>>]

\* the claim's table: alpha, beta, milestone, rc, snapshot, no qualifier, sp
QUALIFIER_TABLE == <<S_alpha, S_beta, S_milestone, S_rc, S_snapshot, <<>>, S_sp>>

\* the place of a qualifier in the table, after folding; 8 for any other
TableRank(q) ==
    LET f == Folded(q, FALSE)
    IN  IF \E k \in 1..Len(QUALIFIER_TABLE) : QUALIFIER_TABLE[k] = f
        THEN CHOOSE k \in 1..Len(QUALIFIER_TABLE) : QUALIFIER_TABLE[k] = f
        ELSE Len(QUALIFIER_TABLE) + 1

\* q1 ranks before q2: earlier in the table, or both other and lexically less
RanksBefore(q1, q2) ==
    \/ TableRank(q1) < TableRank(q2)
    \/ /\ TableRank(q1) = Len(QUALIFIER_TABLE) + 1
       /\ TableRank(q2) = Len(QUALIFIER_TABLE) + 1
       /\ StrCmp(ToLowercase(q1), ToLowercase(q2)) = "Less"

\* C8: qualifier ranking: B-q1 < B-q2 exactly when q1 ranks before q2 in
\* alpha < beta < milestone < rc < snapshot < (none) < sp < other (others
\* lexically); B-alpha .. B-snapshot are less than B, B-sp and B-other greater.
C8_QualifierRanking ==
    (IsWord(SuffixOf(1)) /\ IsWord(SuffixOf(2))) =>
        /\ Compared(1, 2) =>
                ((ord[<<1, 2>>] = "Less") <=> RanksBefore(SuffixOf(1), SuffixOf(2)))
        /\ Compared(1, 3) =>
                ord[<<1, 3>>] = IF TableRank(SuffixOf(1)) < 6 THEN "Less"
                                ELSE IF TableRank(SuffixOf(1)) = 6 THEN "Equal"
                                ELSE "Greater"

\* "2.0.1-SNAPSHOT" and "2.0.1-sp" have been compared with each other and
\* the first with "2.0.1"
C8_Witness ==
    /\ input[3] = <<50, DOT, ZERO, DOT, 49>>
    /\ SuffixOf(1) = <<83, 78, 65, 80, 83, 72, 79, 84>>
    /\ SuffixOf(2) = S_sp
    /\ Compared(1, 2) /\ Compared(1, 3)
    /\ ord[<<1, 2>>] = "Less" /\ ord[<<1, 3>>] = "Less"

\* a digit run of positive value
IsPositive(n) == IsNumber(n) /\ SkipLeadingZeros(n) # <<>>

\* every item of a built version
ItemsOf(v) == {v.segments[k].items[m] : <<k, m>> \in
                 {<<k, m>> \in (1..Len(v.segments)) \X (1..20) :
                      m <= Len(v.segments[k].items)}}

\* directly compared, a string item is less than an integer item
StringBelowInteger ==
    \A i \in DOMAIN cv, j \in DOMAIN cv :
        \A x \in ItemsOf(cv[i]), y \in ItemsOf(cv[j]) :
            (x.kind = "String" /\ y.kind \in {"Int", "BigInt"}) =>
                (Item_cmp(x, y) = "Less" /\ Item_cmp(y, x) = "Greater")

\* the qualifiers the claim excludes
ReservedInClaim == {S_alpha, S_beta, S_milestone, S_rc, S_snapshot, S_ga, S_final, S_release}

\* C9 as stated: for a qualifier q that is not alpha, beta, milestone, rc,
\* snapshot, ga, final or release and a positive integer n, B < B-q < B-n;
\* directly compared, a string item is less than an integer item.
C9_AsStated ==
    /\ (IsWord(SuffixOf(1)) /\ ToLowercase(SuffixOf(1)) \notin ReservedInClaim
            /\ IsPositive(SuffixOf(2))) =>
            /\ Compared(3, 1) => ord[<<3, 1>>] = "Less"
            /\ Compared(1, 2) => ord[<<1, 2>>] = "Less"
    /\ StringBelowInteger

\* C9: the same with cr, which folds to rc, excluded as well.
C9_NumericVsQualifier ==
    /\ (IsWord(SuffixOf(1)) /\ ToLowercase(SuffixOf(1)) \notin (ReservedInClaim \cup {S_cr})
            /\ IsPositive(SuffixOf(2))) =>
            /\ Compared(3, 1) => ord[<<3, 1>>] = "Less"
            /\ Compared(1, 2) => ord[<<1, 2>>] = "Less"
    /\ StringBelowInteger

\* "2.0.1" < "2.0.1-xyz" < "2.0.1-123" has been established
C9_Witness ==
    /\ input[3] = <<50, DOT, ZERO, DOT, 49>>
    /\ SuffixOf(1) = <<120, 121, 122>>
    /\ SuffixOf(2) = <<49, 50, 51>>
    /\ Compared(3, 1) /\ Compared(1, 2)
    /\ ord[<<3, 1>>] = "Less" /\ ord[<<1, 2>>] = "Less"

\* the number of significant digits of a digit run
Significant(n) == Len(SkipLeadingZeros(n))

\* C10: a digit run with more than 9 significant digits is compared by its
\* exact value: two such runs order numerically, and such a run is greater
\* than any run with at most 9 significant digits at the same position.
C10_BigInteger ==
    (/\ IsNumber(SuffixOf(1)) /\ IsNumber(SuffixOf(2))
     /\ (Significant(SuffixOf(1)) > MAX_U32_LEN \/ Significant(SuffixOf(2)) > MAX_U32_LEN)
     /\ Compared(1, 2) /\ Compared(2, 1)) =>
        /\ ord[<<1, 2>>] = DigitsCmp(SkipLeadingZeros(SuffixOf(1)), SkipLeadingZeros(SuffixOf(2)))
        /\ ord[<<2, 1>>] = Reverse(ord[<<1, 2>>])
        /\ (Significant(SuffixOf(1)) <= MAX_U32_LEN) => ord[<<1, 2>>] = "Less"

\* "1-9999999999" and "1-10000000000", ten and eleven digits, have been
\* compared in both directions
C10_Witness ==
    /\ input[3] = <<49>>
    /\ SuffixOf(1) = <<57, 57, 57, 57, 57, 57, 57, 57, 57, 57>>
    /\ SuffixOf(2) = <<49, 48, 48, 48, 48, 48, 48, 48, 48, 48, 48>>
    /\ Compared(1, 2) /\ Compared(2, 1)
    /\ ord[<<1, 2>>] = "Less"

\* ------------------------------------------------------------------------
\* The canonical text
\* ------------------------------------------------------------------------

\* "1.0A1" and "1-alpha-1", the example of canonical's documentation
S_1_0A1 == <<49, DOT, 48, 65, 49>>

S_1_alpha_1 == <<49, DASH>> \o S_alpha \o <<DASH, 49>>

\* C11: canonical is idempotent: with c = new(s).canonical(), the canonical
\* text of new(c) is c again; and the canonical text of "1.0A1" is
\* "1-alpha-1".
C11_CanonicalIdempotent ==
    /\ \A i \in DOMAIN recan : canonical(recan[i]) = can[i]
    /\ canonical(ComparableVersion_new(S_1_0A1)) = S_1_alpha_1

\* the documented example alone
C11_Example == canonical(ComparableVersion_new(S_1_0A1)) = S_1_alpha_1

\* ------------------------------------------------------------------------
\* ArtifactVersion: order and fields
\* ------------------------------------------------------------------------

\* the value of a u32 field
U32Value(u) == u.hi * HALF + u.lo

\* C12: == and cmp on ArtifactVersion::new(s) and ArtifactVersion::new(t)
\* give exactly the results of == and cmp on ComparableVersion::new(s) and
\* ComparableVersion::new(t); the fields major, minor, incremental, build
\* and qualifier have no influence.
C12_Delegation ==
    /\ \A p \in DOMAIN aord :
          aord[p] = ComparableVersion_cmp(ComparableVersion_new(input[p[1]]),
                                          ComparableVersion_new(input[p[2]]))
    /\ \A p \in DOMAIN aeqr :
          aeqr[p] = ComparableVersion_eq(ComparableVersion_new(input[p[1]]),
                                         ComparableVersion_new(input[p[2]]))
    /\ \A p \in DOMAIN aord \cap DOMAIN ord : aord[p] = ord[p]
    /\ \A p \in DOMAIN aeqr \cap DOMAIN eqr : aeqr[p] = eqr[p]

\* two versions were compared whose major fields order them the other way
\* round: the first is Less with the greater major
C12_Witness ==
    /\ <<1, 2>> \in DOMAIN aord /\ <<1, 2>> \in DOMAIN aeqr /\ Compared(1, 2)
    /\ aord[<<1, 2>>] = "Less"
    /\ U32Value(av[1].major) > U32Value(av[2].major)

\* C13: build and qualifier are mutually exclusive: no ArtifactVersion has
\* a nonzero build together with a qualifier; either build is nonzero and
\* the qualifier is None, or build is 0.
C13_BuildOrQualifier ==
    \A i \in DOMAIN av : ~(av[i].build # U32_ZERO /\ av[i].qualifier.some)

\* a version with a build number and no qualifier was built from a text
\* with a dash, and its major field is set
C13_Witness ==
    /\ 1 \in DOMAIN av
    /\ av[1].build # U32_ZERO /\ ~av[1].qualifier.some
    /\ av[1].major # U32_ZERO
    /\ \E k \in 1..Len(input[1]) : input[1][k] = DASH

\* the result of the closure `fallback` on s: every numeric field 0 and the
\* whole text as the qualifier
IsFallback(v, s) ==
    /\ v.major = U32_ZERO /\ v.minor = U32_ZERO
    /\ v.incremental = U32_ZERO /\ v.build = U32_ZERO
    /\ v.qualifier = Some_(s)

\* how many of the first n bytes of s are c
RECURSIVE CountIn(_, _, _)
CountIn(s, n, c) ==
    IF n = 0 THEN 0 ELSE CountIn(s, n - 1, c) + (IF s[n] = c THEN 1 ELSE 0)

\* byte k of s (1-based) is read in the Major, Minor or Incremental zone:
\* no dash and fewer than three dots come before it
InNumericZone(s, k) == CountIn(s, k - 1, DASH) = 0 /\ CountIn(s, k - 1, DOT) < 3

\* the malformed boundaries: a leading ".", a "-" right after a ".", or
\* ".." before the BuildOrQualifier and DottedQualifier zones
MalformedBoundary(s) ==
    \/ s # <<>> /\ s[1] = DOT
    \/ \E k \in 2..Len(s) : s[k] = DASH /\ s[k - 1] = DOT
    \/ \E k \in 2..Len(s) : s[k] = DOT /\ s[k - 1] = DOT /\ InNumericZone(s, k)

\* C14: every input with a malformed boundary (a leading ".", a "-" right
\* after a ".", or ".." before the BuildOrQualifier/DottedQualifier zones)
\* gives the fallback: major, minor, incremental and build 0 and the whole
\* input as the qualifier.
C14_MalformedBoundary ==
    \A i \in DOMAIN av : MalformedBoundary(input[i]) => IsFallback(av[i], input[i])

\* the 1-based index of the last byte of the component that starts at byte
\* p: the byte before the next "." or "-", or the last byte of s
RECURSIVE ComponentEnd(_, _)
ComponentEnd(s, p) ==
    IF p > Len(s) \/ s[p] \in {DOT, DASH} THEN p - 1 ELSE ComponentEnd(s, p + 1)

\* a component of the Major, Minor or Incremental zone starts at byte p
ComponentStart(s, p) ==
    p \in 1..(Len(s) + 1) /\ InNumericZone(s, p) /\ (p = 1 \/ s[p - 1] = DOT)

\* the component at p is one the claims call unparsable: the Major
\* component beginning with "0", or a later one with "0" before more digits
LeadingZero(s, p) ==
    /\ p <= Len(s) /\ s[p] = ZERO
    /\ p = 1 \/ (p < Len(s) /\ IsAsciiDigit(s[p + 1]))

\* every component before byte p is a number the code stores: it parses as
\* an i32 and has no leading zero
ParsedBefore(s, p) ==
    \A q \in 1..(p - 1) : ComponentStart(s, q) =>
        /\ ~LeadingZero(s, q)
        /\ ParseI32(SubSeq(s, q, ComponentEnd(s, q))).ok

\* the field the n-th dot leads to: major, minor, incremental
FieldOf(v, n) == IF n = 0 THEN v.major ELSE IF n = 1 THEN v.minor ELSE v.incremental

\* the fields of the components before byte p hold their parsed values and
\* the fields from the component at p on are 0
FieldsUpTo(v, s, p) ==
    /\ \A q \in 1..(p - 1) : ComponentStart(s, q) =>
          FieldOf(v, CountIn(s, q - 1, DOT)) =
              AsU32(ParseI32(SubSeq(s, q, ComponentEnd(s, q))).val)
    /\ \A n \in 0..2 : n >= CountIn(s, p - 1, DOT) => FieldOf(v, n) = U32_ZERO

\* C15: a Major component that begins with "0", or a Minor or Incremental
\* component after a delimiter with a leading zero ("0" before more digits,
\* as in "1.09"), is not parsed as a number: the rest of the input from
\* that component on becomes the qualifier, and the fields keep the values
\* accumulated before it.
C15_LeadingZero ==
    \A i \in DOMAIN av : \A p \in 1..Len(input[i]) :
        (ComponentStart(input[i], p) /\ LeadingZero(input[i], p)
            /\ ParsedBefore(input[i], p))
        => /\ av[i].qualifier = Some_(SubSeq(input[i], p, Len(input[i])))
           /\ av[i].build = U32_ZERO
           /\ FieldsUpTo(av[i], input[i], p)

\* the first "-" of s is byte d, it ends the Major, Minor or Incremental
\* zone, and every component before it was stored as a number
EndsNumericZone(s, d) ==
    /\ d \in 1..Len(s) /\ s[d] = DASH
    /\ InNumericZone(s, d)
    /\ ParsedBefore(s, d + 1)

\* the build field holds the integer n
BuildIs(v, n) == n >= 0 /\ v.build = [hi |-> n \div HALF, lo |-> n % HALF]

\* what C16 says of the text t after the dash
BuildOrQualifierOf(v, t) ==
    IF t # <<>> /\ t[1] = ZERO THEN v.qualifier = Some_(t) /\ v.build = U32_ZERO
    ELSE IF ParseI32(t).ok THEN BuildIs(v, ParseI32(t).val) /\ v.qualifier = None_
    ELSE v.qualifier = Some_(t) /\ v.build = U32_ZERO

\* C16: when the input ends in the BuildOrQualifier zone, with t the text
\* after the first "-" that ended the Major/Minor/Incremental zone: if t
\* starts with "0" the qualifier is t and build is 0; otherwise, if t
\* parses as a 32-bit integer, build is that integer and the qualifier is
\* None; otherwise (overflow included) the qualifier is t and build is 0.
C16_BuildZoneEnd ==
    \A i \in DOMAIN av : \A d \in 1..Len(input[i]) :
        EndsNumericZone(input[i], d)
        => BuildOrQualifierOf(av[i], SubSeq(input[i], d + 1, Len(input[i])))

\* byte d is the third "." of s, s has no "-", and the three components
\* before it were stored as numbers: the input ends in the DottedQualifier
\* zone
EndsDottedZone(s, d) ==
    /\ d \in 1..Len(s) /\ s[d] = DOT
    /\ CountIn(s, d - 1, DOT) = 2
    /\ CountIn(s, Len(s), DASH) = 0
    /\ ParsedBefore(s, d + 1)

\* C17: when the input ends in the DottedQualifier zone (a fourth
\* dot-separated component reached before any dash): if the text after the
\* third dot consists only of digits the whole parse falls back (all
\* fields 0, the whole input the qualifier, as for "1.7.3.0"); otherwise
\* major, minor and incremental keep their parsed values and that text is
\* the qualifier ("1.1.2.beta1" gives 1, 1, 2, "beta1").
C17_DottedZoneEnd ==
    \A i \in DOMAIN av : \A d \in 1..Len(input[i]) :
        EndsDottedZone(input[i], d)
        => IF AllDigits(SubSeq(input[i], d + 1, Len(input[i])))
           THEN IsFallback(av[i], input[i])
           ELSE /\ av[i].qualifier = Some_(SubSeq(input[i], d + 1, Len(input[i])))
                /\ av[i].build = U32_ZERO
                /\ FieldsUpTo(av[i], input[i], d + 1)

\* a version was built from three numbers and a fourth component of digits
\* only, and it is the fallback
C17_Witness ==
    /\ 1 \in DOMAIN av
    /\ \E d \in 1..Len(input[1]) :
          /\ EndsDottedZone(input[1], d)
          /\ d < Len(input[1])
          /\ AllDigits(SubSeq(input[1], d + 1, Len(input[1])))
    /\ IsFallback(av[1], input[1])

\* ------------------------------------------------------------------------
\* The segments of a ComparableVersion
\* ------------------------------------------------------------------------

\* the positions of the segments of v that carry the flag
Flagged(v) == {k \in 1..Len(v.segments) : v.segments[k].last_segment}

\* C18 as stated: in every ComparableVersion produced by new exactly one
\* segment has last_segment = true, the final one of the surviving
\* sequence; every other segment has last_segment = false.
C18_AsStated ==
    \A i \in DOMAIN cv : Flagged(cv[i]) = {Len(cv[i].segments)} /\ Len(cv[i].segments) >= 1

\* C18: in every ComparableVersion produced by new with at least one
\* surviving segment, exactly one segment has last_segment = true, the
\* final one; every other segment has last_segment = false. A version
\* with no surviving segment ("", "0", "ga") has no flagged segment.
C18_LastSegmentFlag ==
    \A i \in DOMAIN cv :
        Flagged(cv[i]) = IF cv[i].segments = <<>> THEN {} ELSE {Len(cv[i].segments)}

\* the version of s + "-0" has two or more segments, its trailing null
\* segment was stripped, and only its final segment is flagged
C18_Witness ==
    /\ 3 \in DOMAIN cv
    /\ Len(cv[3].segments) >= 2
    /\ Flagged(cv[3]) = {Len(cv[3].segments)}
    /\ cv[3].segments[Len(cv[3].segments)].items # <<>>

\* C19: no segment's item list ends with a null item, and the final
\* segment is not null (it has at least one item); so a segment is null
\* exactly when its item list is empty.
C19_NoTrailingNulls ==
    \A i \in DOMAIN cv : \A k \in 1..Len(cv[i].segments) :
        LET seg == cv[i].segments[k]
        IN  /\ seg.items = <<>> \/ ~Item_is_null(seg.items[Len(seg.items)])
            /\ k = Len(cv[i].segments) => (seg.items # <<>> /\ ~Segment_is_null(seg))
            /\ Segment_is_null(seg) <=> seg.items = <<>>

\* a version with an empty inner segment and a final segment was built
\* from a text that ends in a null item
C19_Witness ==
    /\ 2 \in DOMAIN cv
    /\ Len(cv[2].segments) >= 2
    /\ \E k \in 1..(Len(cv[2].segments) - 1) : cv[2].segments[k].items = <<>>
    /\ cv[2].segments[Len(cv[2].segments)].items # <<>>

\* ------------------------------------------------------------------------
\* Boundaries between digits and letters
\* ------------------------------------------------------------------------

\* bytes k and k + 1 of s are a digit and a letter, in either order, and t
\* is s with a "-" inserted between them
InsertedAt(s, t, k) ==
    /\ k \in 1..(Len(s) - 1)
    /\ s[k] \notin {DOT, DASH} /\ s[k + 1] \notin {DOT, DASH}
    /\ IsAsciiDigit(s[k]) # IsAsciiDigit(s[k + 1])
    /\ t = SubSeq(s, 1, k) \o <<DASH>> \o SubSeq(s, k + 1, Len(s))

\* byte k of s is the letter run "a", "b" or "m" (in either case) and a
\* digit follows it: the run Item::from_str expands only when a digit
\* follows directly
AliasBeforeDigit(s, k) ==
    /\ IsAsciiDigit(s[k + 1])
    /\ ToLowercase(<<s[k]>>) \in {S_a, S_b, S_m}
    /\ k = 1 \/ IsAsciiDigit(s[k - 1]) \/ s[k - 1] \in {DOT, DASH}

\* the two versions have the same segments and compare as Equal
SameVersion(i, j) ==
    /\ cv[i].segments = cv[j].segments
    /\ Compared(i, j) => ord[<<i, j>>] = "Equal"
    /\ Compared(j, i) => ord[<<j, i>>] = "Equal"

\* C20 as stated: for every input, inserting "-" at a boundary between a
\* digit run and a letter run gives a version with the same segment
\* sequence, hence an equal one ("1.2.3foo" = "1.2.3-foo", "1a" = "1-a").
C20_AsStated ==
    ({1, 2} \subseteq DOMAIN cv /\ \E k \in 1..Len(input[1]) : InsertedAt(input[1], input[2], k))
    => SameVersion(1, 2)

\* C20: inserting "-" at a boundary between a digit run and a letter run
\* gives a version with the same segment sequence, which compares as
\* Equal, unless the letter run is a, b or m (in either case) and the
\* digit run follows it: there the undelimited text reads alpha, beta or
\* milestone and the delimited one the plain letter.
C20_BoundaryIsDash ==
    ({1, 2} \subseteq DOMAIN cv
        /\ \E k \in 1..Len(input[1]) :
              InsertedAt(input[1], input[2], k) /\ ~AliasBeforeDigit(input[1], k))
    => SameVersion(1, 2)

\* a letter run other than a, b, m stands before a digit run, the text and
\* its delimited form were compared, and the versions have two or more
\* segments
C20_Witness ==
    /\ {1, 2} \subseteq DOMAIN cv
    /\ \E k \in 1..Len(input[1]) :
          /\ InsertedAt(input[1], input[2], k)
          /\ ~AliasBeforeDigit(input[1], k)
          /\ IsAsciiDigit(input[1][k + 1])
    /\ Compared(1, 2) /\ Compared(2, 1)
    /\ Len(cv[1].segments) >= 2

\* ------------------------------------------------------------------------
\* The range of the numeric fields
\* ------------------------------------------------------------------------

\* the u32 u lies in 0..2^31-1: its upper half is below 2^15
InI32Range(u) == u.hi < HALF \div 2

\* u is the decimal value of a component of s made only of ASCII digits
ValueOfDigitComponent(s, u) ==
    \E p \in 1..Len(s) :
        /\ p = 1 \/ s[p - 1] \in {DOT, DASH}
        /\ ComponentEnd(s, p) >= p
        /\ AllDigits(SubSeq(s, p, ComponentEnd(s, p)))
        /\ ParseI32(SubSeq(s, p, ComponentEnd(s, p))).ok
        /\ u = AsU32(ParseI32(SubSeq(s, p, ComponentEnd(s, p))).val)

\* C21: for every input each of major, minor, incremental and build lies
\* in 0..2^31-1 and, when nonzero, is the decimal value of a component of
\* the input made only of ASCII digits; a signed component ("-5" left in
\* the build zone by "1--5", or "+1") never gives a numeric field, and no
\* negative parse result is wrapped into a large unsigned value.
C21_FieldRange ==
    \A i \in DOMAIN av :
        \A u \in {av[i].major, av[i].minor, av[i].incremental, av[i].build} :
            /\ InI32Range(u)
            /\ u # U32_ZERO => ValueOfDigitComponent(input[i], u)

====
